---- MODULE Spec2Model ----
(***************************************************************************)
(* A model of rustbox (src/src/rustbox.rs): the process-wide running flag  *)
(* and its RAII guard, RustBox::init, the handle's methods and its drop,   *)
(* and the event decoder unpack_event.                                     *)
(*                                                                         *)
(* Each thread of the program is a process.  A step of the model is one    *)
(* atomic operation on the flag, one call into termbox, one acquisition or *)
(* one destructor.  The destructors run in the order Rust gives them:      *)
(* Drop::drop of a value first, then its fields in declaration order; the  *)
(* locals of a function in reverse declaration order.                      *)
(***************************************************************************)
EXTENDS Integers, Sequences, FiniteSets, TLC

VARIABLES
    RUSTBOX_RUNNING,  \* the static AtomicBool of mod running
    pc,               \* per thread: where it is in init / drop
    opts,             \* per thread: the InitOptions of the init call in progress
    guard,            \* per thread: it owns a RunningGuard (local `running` or field `_running`)
    hold,             \* per thread: it owns a gag::Hold (local `stderr` or field `_stderr`)
    todo,             \* per thread: the values whose destructors are still to run, in order
    ret,              \* per thread: the value of init's last return expression
    log,              \* the acquisitions, termbox calls and releases since the flag was last taken
    lastCall,         \* the last call made into termbox, with the flag's value at the call
    arg,              \* the arguments of unpack_event
    result,           \* the value unpack_event returned
    paint,            \* the style and colours given to print / print_char
    cell              \* the fg and bg words print / print_char pass to change_cell

vars == <<RUSTBOX_RUNNING, pc, opts, guard, hold, todo, ret, log, lastCall, arg, result,
          paint, cell>>

lifecycle == <<RUSTBOX_RUNNING, pc, opts, guard, hold, todo, ret, log, lastCall>>

decoder == <<arg, result>>

painter == <<paint, cell>>

-----------------------------------------------------------------------------
(* Bounds *)

NumThreads == 2

MaxInitCode == 4

MaxTag == 5

Threads == 1..NumThreads

-----------------------------------------------------------------------------
(* Option, as the code uses it *)

None == [some |-> FALSE]

Some(v) == [some |-> TRUE, val |-> v]

-----------------------------------------------------------------------------
(* enum InputMode and struct InitOptions *)

InputMode == {"Current", "Esc", "Alt", "EscMouse", "AltMouse"}

InputModeCode(m) ==
    CASE m = "Current"  -> 0
      [] m = "Esc"      -> 1
      [] m = "Alt"      -> 2
      [] m = "EscMouse" -> 5
      [] m = "AltMouse" -> 6

InitOptions == [input_mode : InputMode, buffer_stderr : BOOLEAN]

InitOptions_default == [input_mode |-> "Current", buffer_stderr |-> FALSE]

-----------------------------------------------------------------------------
(* enum InitError and its FromPrimitive *)

AlreadyOpen == [err |-> "AlreadyOpen"]

BufferStderrFailed == [err |-> "BufferStderrFailed"]

UnsupportedTerminal == [err |-> "UnsupportedTerminal"]

FailedToOpenTTy == [err |-> "FailedToOpenTTy"]

PipeTrapError == [err |-> "PipeTrapError"]

InitError_Unknown(n) == [err |-> "Unknown", code |-> n]

InitError_from_i64_swapped(n) ==
    CASE n = -1 -> Some(UnsupportedTerminal)
      [] n = -2 -> Some(PipeTrapError)
      [] n = -3 -> Some(FailedToOpenTTy)
      [] OTHER  -> Some(InitError_Unknown(n))

InitError_from_i64(n) ==
    CASE n = -1 -> Some(UnsupportedTerminal)
      [] n = -2 -> Some(FailedToOpenTTy)
      [] n = -3 -> Some(PipeTrapError)
      [] OTHER  -> Some(InitError_Unknown(n))

\* the codes tb_init may return: 0, the negative codes, and one positive code
TbInitCodes == (0 - MaxInitCode)..1

Ok(v) == [ok |-> TRUE, val |-> v]

Err(e) == [ok |-> FALSE, error |-> e]

NoReturn == [ok |-> FALSE, error |-> [err |-> "none"]]

-----------------------------------------------------------------------------
(* mod running *)

running == RUSTBOX_RUNNING

\* AtomicBool::swap(true): the new value of the flag, and the guard run() returns
run_toggle(flag) ==
    [flag |-> ~flag, guard |-> IF flag THEN None ELSE Some("RunningGuard")]

run_always(flag) ==
    [flag |-> TRUE, guard |-> Some("RunningGuard")]

run(flag) ==
    [flag |-> TRUE, guard |-> IF flag THEN None ELSE Some("RunningGuard")]

\* Drop for RunningGuard: the value it stores into the flag
RunningGuard_drop_forgets(flag) == flag

RunningGuard_drop(flag) == FALSE

-----------------------------------------------------------------------------
(* Destructor order *)

RECURSIVE Reverse(_)
Reverse(s) == IF s = <<>> THEN <<>> ELSE Append(Reverse(Tail(s)), Head(s))

\* struct RustBox: the fields that own something, in declaration order
RustBoxFields_guard_first == <<"running", "stderr">>

RustBoxFields == <<"stderr", "running">>

\* the locals of init that own something, in declaration order
InitLocals == <<"running", "stderr">>

\* the locals to drop when init returns early with the first k of them declared
Unwind_forward(k) == SubSeq(InitLocals, 1, k)

Unwind_leaks_guard(k) == SelectSeq(Reverse(SubSeq(InitLocals, 1, k)), LAMBDA x : x # "running")

Unwind(k) == Reverse(SubSeq(InitLocals, 1, k))

-----------------------------------------------------------------------------
(* The log and the calls into termbox *)

Entry(c, a) == [call |-> c, arg |-> a]

NoCall == [fn |-> "none", arg |-> 0, by |-> 0, running |-> FALSE, guarded |-> FALSE]

Call(f, a, t) ==
    [fn |-> f, arg |-> a, by |-> t, running |-> RUSTBOX_RUNNING, guarded |-> guard[t]]

\* the place of the first entry of the log that is call c, 0 when there is none
Pos(c) ==
    LET at == {i \in 1..Len(log) : log[i].call = c}
    IN  IF at = {} THEN 0 ELSE CHOOSE i \in at : \A j \in at : i <= j

Count(c) == Cardinality({i \in 1..Len(log) : log[i].call = c})

-----------------------------------------------------------------------------
(* The state after program start *)

NIL_RAW_EVENT == [etype |-> 0, emod |-> 0, key |-> 0, ch |-> 0, w |-> 0, h |-> 0, x |-> 0, y |-> 0]

NoArg == [ev_type |-> 0, ev |-> NIL_RAW_EVENT, raw |-> FALSE]

NoResult == [ok |-> FALSE, error |-> [err |-> "none"]]

NoPaint == [sty |-> 0, fg |-> "Default", bg |-> "Default"]

NoCell == [fg |-> -1, bg |-> -1]

InitLifecycle ==
    /\ RUSTBOX_RUNNING = FALSE
    /\ pc = [t \in Threads |-> "idle"]
    /\ opts = [t \in Threads |-> InitOptions_default]
    /\ guard = [t \in Threads |-> FALSE]
    /\ hold = [t \in Threads |-> FALSE]
    /\ todo = [t \in Threads |-> <<>>]
    /\ ret = [t \in Threads |-> NoReturn]
    /\ log = <<>>
    /\ lastCall = NoCall

Init ==
    /\ InitLifecycle
    /\ arg = NoArg
    /\ result = NoResult
    /\ paint = NoPaint
    /\ cell = NoCell

-----------------------------------------------------------------------------
(* RustBox::init *)

\* let running = match running::run() { Some(r) => r, None => return Err(AlreadyOpen) };
InitRun(t, o) ==
    /\ pc[t] = "idle"
    /\ LET r == run(RUSTBOX_RUNNING) IN
       /\ RUSTBOX_RUNNING' = r.flag
       /\ IF r.guard.some
          THEN /\ pc' = [pc EXCEPT ![t] = "stderr"]
               /\ opts' = [opts EXCEPT ![t] = o]
               /\ guard' = [guard EXCEPT ![t] = TRUE]
               /\ ret' = [ret EXCEPT ![t] = NoReturn]
               /\ log' = <<Entry("run", t)>>
          ELSE /\ ret' = [ret EXCEPT ![t] = Err(AlreadyOpen)]
               /\ UNCHANGED <<pc, opts, guard, log>>
    /\ UNCHANGED <<hold, todo, lastCall, decoder, painter>>

\* let stderr = if opts.buffer_stderr { Some(try!(Hold::stderr().map_err(..))) } else { None };
InitStderr(t) ==
    /\ pc[t] = "stderr"
    /\ IF opts[t].buffer_stderr
       THEN \E io_ok \in BOOLEAN :
              IF io_ok
              THEN /\ hold' = [hold EXCEPT ![t] = TRUE]
                   /\ log' = Append(log, Entry("Hold::stderr", 0))
                   /\ pc' = [pc EXCEPT ![t] = "tb_init"]
                   /\ UNCHANGED <<ret, todo>>
              ELSE /\ ret' = [ret EXCEPT ![t] = Err(BufferStderrFailed)]
                   /\ todo' = [todo EXCEPT ![t] = Unwind(1)]
                   /\ pc' = [pc EXCEPT ![t] = "unwind"]
                   /\ UNCHANGED <<hold, log>>
       ELSE /\ pc' = [pc EXCEPT ![t] = "tb_init"]
            /\ UNCHANGED <<hold, log, ret, todo>>
    /\ UNCHANGED <<RUSTBOX_RUNNING, opts, guard, lastCall, decoder, painter>>

\* match termbox::tb_init() { 0 => RustBox {..}, res => return Err(from_isize(res).unwrap()) }
InitTb(t) ==
    /\ pc[t] = "tb_init"
    /\ \E res \in TbInitCodes :
         /\ lastCall' = Call("tb_init", res, t)
         /\ log' = Append(log, Entry("tb_init", res))
         /\ IF res = 0
            THEN /\ pc' = [pc EXCEPT ![t] = "input_mode"]
                 /\ UNCHANGED <<ret, todo>>
            ELSE /\ ret' = [ret EXCEPT ![t] = Err(InitError_from_i64(res).val)]
                 /\ todo' = [todo EXCEPT ![t] = Unwind(2)]
                 /\ pc' = [pc EXCEPT ![t] = "unwind"]
    /\ UNCHANGED <<RUSTBOX_RUNNING, opts, guard, hold, decoder, painter>>

InitInputMode_always_selects(t) ==
    /\ pc[t] = "input_mode"
    /\ lastCall' = Call("tb_select_input_mode", InputModeCode(opts[t].input_mode), t)
    /\ log' = Append(log, Entry("tb_select_input_mode", InputModeCode(opts[t].input_mode)))
    /\ ret' = [ret EXCEPT ![t] = Ok("RustBox")]
    /\ pc' = [pc EXCEPT ![t] = "live"]
    /\ opts' = [opts EXCEPT ![t] = InitOptions_default]
    /\ UNCHANGED <<RUSTBOX_RUNNING, guard, hold, todo, decoder, painter>>

\* match opts.input_mode { Current => (), _ => rb.set_input_mode(opts.input_mode) }  Ok(rb)
InitInputMode(t) ==
    /\ pc[t] = "input_mode"
    /\ IF opts[t].input_mode = "Current"
       THEN UNCHANGED <<log, lastCall>>
       ELSE /\ lastCall' = Call("tb_select_input_mode", InputModeCode(opts[t].input_mode), t)
            /\ log' = Append(log, Entry("tb_select_input_mode", InputModeCode(opts[t].input_mode)))
    /\ ret' = [ret EXCEPT ![t] = Ok("RustBox")]
    /\ pc' = [pc EXCEPT ![t] = "live"]
    /\ opts' = [opts EXCEPT ![t] = InitOptions_default]
    /\ UNCHANGED <<RUSTBOX_RUNNING, guard, hold, todo, decoder, painter>>

\* the destructor of one owned value of thread t
DropValue(t, v) ==
    IF v = "stderr"
    THEN /\ hold' = [hold EXCEPT ![t] = FALSE]
         /\ log' = IF hold[t] THEN Append(log, Entry("drop Hold", 0)) ELSE log
         /\ UNCHANGED <<RUSTBOX_RUNNING, guard>>
    ELSE /\ RUSTBOX_RUNNING' = RunningGuard_drop(RUSTBOX_RUNNING)
         /\ guard' = [guard EXCEPT ![t] = FALSE]
         /\ log' = Append(log, Entry("drop RunningGuard", t))
         /\ UNCHANGED hold

\* an early return of init: the next local goes out of scope; after the last, init has returned
InitUnwind(t) ==
    /\ pc[t] = "unwind"
    /\ todo[t] # <<>>
    /\ DropValue(t, Head(todo[t]))
    /\ todo' = [todo EXCEPT ![t] = Tail(todo[t])]
    /\ pc' = [pc EXCEPT ![t] = IF Tail(todo[t]) = <<>> THEN "idle" ELSE "unwind"]
    /\ opts' = [opts EXCEPT ![t] = IF Tail(todo[t]) = <<>> THEN InitOptions_default ELSE opts[t]]
    /\ UNCHANGED <<ret, lastCall, decoder, painter>>

-----------------------------------------------------------------------------
(* The methods of a live handle *)

\* the termbox function each method of RustBox calls
TermboxMethods ==
    {"tb_width", "tb_height", "tb_clear", "tb_present", "tb_set_cursor",
     "tb_change_cell", "tb_poll_event", "tb_peek_event"}

Method_without_handle(t, f) ==
    /\ lastCall' = Call(f, 0, t)
    /\ UNCHANGED <<RUSTBOX_RUNNING, pc, opts, guard, hold, todo, ret, log, decoder, painter>>

\* width, height, clear, present, set_cursor, change_cell, print, print_char,
\* poll_event, peek_event: one call into termbox through &self
Method(t, f) ==
    /\ pc[t] = "live"
    /\ lastCall' = Call(f, 0, t)
    /\ UNCHANGED <<RUSTBOX_RUNNING, pc, opts, guard, hold, todo, ret, log, decoder, painter>>

\* pub fn set_input_mode(&self, mode)
SetInputMode(t, m) ==
    /\ pc[t] = "live"
    /\ lastCall' = Call("tb_select_input_mode", InputModeCode(m), t)
    /\ UNCHANGED <<RUSTBOX_RUNNING, pc, opts, guard, hold, todo, ret, log, decoder, painter>>

-----------------------------------------------------------------------------
(* Dropping the handle *)

Drop_without_shutdown(t) ==
    /\ pc[t] = "live"
    /\ todo' = [todo EXCEPT ![t] = RustBoxFields]
    /\ pc' = [pc EXCEPT ![t] = "fields"]
    /\ UNCHANGED <<RUSTBOX_RUNNING, opts, guard, hold, ret, log, lastCall, decoder, painter>>

\* Drop for RustBox: drop(&mut self) runs first and calls tb_shutdown;
\* the fields are dropped after it, in declaration order
Drop(t) ==
    /\ pc[t] = "live"
    /\ lastCall' = Call("tb_shutdown", 0, t)
    /\ log' = Append(log, Entry("tb_shutdown", 0))
    /\ todo' = [todo EXCEPT ![t] = RustBoxFields]
    /\ pc' = [pc EXCEPT ![t] = "fields"]
    /\ UNCHANGED <<RUSTBOX_RUNNING, opts, guard, hold, ret, decoder, painter>>

\* the next field of the handle is dropped; after the last, the handle is gone
DropField(t) ==
    /\ pc[t] = "fields"
    /\ todo[t] # <<>>
    /\ DropValue(t, Head(todo[t]))
    /\ todo' = [todo EXCEPT ![t] = Tail(todo[t])]
    /\ pc' = [pc EXCEPT ![t] = IF Tail(todo[t]) = <<>> THEN "idle" ELSE "fields"]
    /\ UNCHANGED <<opts, ret, lastCall, decoder, painter>>

-----------------------------------------------------------------------------
(* The session specification: any number of init calls, method calls and drops
   by the threads, interleaved step by step *)

Next ==
    \/ \E t \in Threads, o \in InitOptions : InitRun(t, o)
    \/ \E t \in Threads : InitStderr(t)
    \/ \E t \in Threads : InitTb(t)
    \/ \E t \in Threads : InitInputMode(t)
    \/ \E t \in Threads : InitUnwind(t)
    \/ \E t \in Threads, f \in TermboxMethods : Method(t, f)
    \/ \E t \in Threads, m \in InputMode : SetInputMode(t, m)
    \/ \E t \in Threads : Drop(t)
    \/ \E t \in Threads : DropField(t)

Spec == Init /\ [][Next]_vars

-----------------------------------------------------------------------------
(* enum Event, enum EventError and its FromPrimitive *)

NoEvent == [ev |-> "NoEvent"]

KeyEventRaw(emod, key, ch) == [ev |-> "KeyEventRaw", emod |-> emod, key |-> key, ch |-> ch]

KeyEvent(k) == [ev |-> "KeyEvent", key |-> k]

ResizeEvent_swapped(w, h) == [ev |-> "ResizeEvent", w |-> h, h |-> w]

ResizeEvent(w, h) == [ev |-> "ResizeEvent", w |-> w, h |-> h]

MouseEvent(m, x, y) == [ev |-> "MouseEvent", button |-> m, x |-> x, y |-> y]

TermboxError == [err |-> "TermboxError"]

EventError_Unknown(n) == [err |-> "Unknown", code |-> n]

EventError_from_i64_all_unknown(n) == Some(EventError_Unknown(n))

EventError_from_i64(n) ==
    CASE n = -1 -> Some(TermboxError)
      [] OTHER  -> Some(EventError_Unknown(n))

char_from_u32_keeps_surrogates(c) ==
    IF c > 1114111 THEN None ELSE Some(c)

\* std::char::from_u32: None for a surrogate and for a value above 0x10FFFF
char_from_u32(c) ==
    IF c > 1114111 \/ (c >= 55296 /\ c <= 57343) THEN None ELSE Some(c)

Key_Char(c) == [key |-> "Char", char |-> c]

\* the keycodes of the keycode table that the inputs use
KnownKeyCodes == {9, 13, 27}

\* Key::from_code (mod keyboard)
Key_from_code(k) ==
    IF k \in KnownKeyCodes THEN Some([key |-> "Named", code |-> k]) ELSE None

\* the codes of the mouse-button table that the inputs use
KnownMouseCodes == {65513, 65512}

Mouse_Left == [button |-> "Left"]

\* Mouse::from_code (mod mouse)
Mouse_from_code(m) ==
    CASE m = 65513 -> Some(Mouse_Left)
      [] m = 65512 -> Some([button |-> "Right"])
      [] OTHER     -> None

unwrap_or(o, d) == IF o.some THEN o.val ELSE d

map_Key_Char(o) == IF o.some THEN Some(Key_Char(o.val)) ELSE None

unpack_event_raw_on_bad_char(ev_type, ev, raw) ==
    CASE ev_type = 0 -> Ok(NoEvent)
      [] ev_type = 1 ->
           Ok(IF raw \/ (ev.key = 0 /\ ~char_from_u32(ev.ch).some)
              THEN KeyEventRaw(ev.emod, ev.key, ev.ch)
              ELSE KeyEvent(IF ev.key = 0
                            THEN map_Key_Char(char_from_u32(ev.ch))
                            ELSE Key_from_code(ev.key)))
      [] ev_type = 2 -> Ok(ResizeEvent(ev.w, ev.h))
      [] ev_type = 3 ->
           Ok(MouseEvent(unwrap_or(Mouse_from_code(ev.key), Mouse_Left), ev.x, ev.y))
      [] OTHER -> Err(EventError_from_i64(ev_type).val)

unpack_event_char_first(ev_type, ev, raw) ==
    CASE ev_type = 0 -> Ok(NoEvent)
      [] ev_type = 1 ->
           Ok(IF raw
              THEN KeyEventRaw(ev.emod, ev.key, ev.ch)
              ELSE KeyEvent(IF ev.key = 0 \/ ev.ch # 0
                            THEN map_Key_Char(char_from_u32(ev.ch))
                            ELSE Key_from_code(ev.key)))
      [] ev_type = 2 -> Ok(ResizeEvent(ev.w, ev.h))
      [] ev_type = 3 ->
           Ok(MouseEvent(unwrap_or(Mouse_from_code(ev.key), Mouse_Left), ev.x, ev.y))
      [] OTHER -> Err(EventError_from_i64(ev_type).val)

unpack_event_mouse_fails(ev_type, ev, raw) ==
    CASE ev_type = 0 -> Ok(NoEvent)
      [] ev_type = 1 ->
           Ok(IF raw
              THEN KeyEventRaw(ev.emod, ev.key, ev.ch)
              ELSE KeyEvent(IF ev.key = 0
                            THEN map_Key_Char(char_from_u32(ev.ch))
                            ELSE Key_from_code(ev.key)))
      [] ev_type = 2 -> Ok(ResizeEvent(ev.w, ev.h))
      [] ev_type = 3 ->
           IF Mouse_from_code(ev.key).some
           THEN Ok(MouseEvent(Mouse_from_code(ev.key).val, ev.x, ev.y))
           ELSE Err(EventError_from_i64(ev_type).val)
      [] OTHER -> Err(EventError_from_i64(ev_type).val)

unpack_event(ev_type, ev, raw) ==
    CASE ev_type = 0 -> Ok(NoEvent)
      [] ev_type = 1 ->
           Ok(IF raw
              THEN KeyEventRaw(ev.emod, ev.key, ev.ch)
              ELSE KeyEvent(IF ev.key = 0
                            THEN map_Key_Char(char_from_u32(ev.ch))
                            ELSE Key_from_code(ev.key)))
      [] ev_type = 2 -> Ok(ResizeEvent(ev.w, ev.h))
      [] ev_type = 3 ->
           Ok(MouseEvent(unwrap_or(Mouse_from_code(ev.key), Mouse_Left), ev.x, ev.y))
      [] OTHER -> Err(EventError_from_i64(ev_type).val)

-----------------------------------------------------------------------------
(* The decoder specification: unpack_event applied once to any type tag of
   -MaxTag..MaxTag, any record of RawEvents and either raw flag *)

EvTypes == (0 - MaxTag)..MaxTag

RawEvents ==
    [etype : {0}, emod : {0, 1}, key : {0, 13, 7777, 65512, 65513},
     ch : {0, 65, 55295, 55296, 57343, 57344, 1114111, 1114112},
     w : {-1, 0, 80}, h : {0, 24}, x : {0, 5}, y : {-1, 0}]

InitUnpack ==
    /\ InitLifecycle
    /\ arg \in [ev_type : EvTypes, ev : RawEvents, raw : BOOLEAN]
    /\ result = NoResult
    /\ paint = NoPaint
    /\ cell = NoCell

\* poll_event / peek_event: unpack_event(rc, &ev, raw)
Unpack ==
    /\ result = NoResult
    /\ result' = unpack_event(arg.ev_type, arg.ev, arg.raw)
    /\ UNCHANGED <<arg, lifecycle, painter>>

NextUnpack == Unpack

SpecUnpack == InitUnpack /\ [][NextUnpack]_vars

-----------------------------------------------------------------------------
(* enum Color, mod style, and the words print and print_char compute *)

RECURSIVE BitAnd(_, _)
BitAnd(a, b) ==
    IF a = 0 \/ b = 0 THEN 0
    ELSE (a % 2) * (b % 2) + 2 * BitAnd(a \div 2, b \div 2)

RECURSIVE BitOr(_, _)
BitOr(a, b) ==
    IF a = 0 THEN b
    ELSE IF b = 0 THEN a
    ELSE (IF a % 2 = 1 \/ b % 2 = 1 THEN 1 ELSE 0) + 2 * BitOr(a \div 2, b \div 2)

Color ==
    {"Default", "Black", "Red", "Green", "Yellow", "Blue", "Magenta", "Cyan", "White"}

\* color as u16
ColorCode(c) ==
    CASE c = "Default" -> 0
      [] c = "Black"   -> 1
      [] c = "Red"     -> 2
      [] c = "Green"   -> 3
      [] c = "Yellow"  -> 4
      [] c = "Blue"    -> 5
      [] c = "Magenta" -> 6
      [] c = "Cyan"    -> 7
      [] c = "White"   -> 8

TB_NORMAL_COLOR == 15

RB_BOLD == 256

RB_UNDERLINE == 512

RB_REVERSE == 1024

RB_NORMAL == 0

TB_ATTRIB == BitOr(BitOr(RB_BOLD, RB_UNDERLINE), RB_REVERSE)

\* the values of Style: every union of its flags
Style == {BitOr(c, a) : c \in 0..TB_NORMAL_COLOR,
                       a \in {BitAnd(TB_ATTRIB, 256 * k) : k \in 0..7}}

Style_from_color(color) == BitAnd(ColorCode(color), TB_NORMAL_COLOR)

\* let fg = Style::from_color(fg) | (sty & style::TB_ATTRIB);
print_fg_unmasked(sty, fg) == BitOr(Style_from_color(fg), sty)

print_fg(sty, fg) == BitOr(Style_from_color(fg), BitAnd(sty, TB_ATTRIB))

\* let bg = Style::from_color(bg);
print_bg(bg) == Style_from_color(bg)

-----------------------------------------------------------------------------
(* The print specification: print_char applied once to any style and any
   foreground and background colour *)

InitPrint ==
    /\ InitLifecycle
    /\ arg = NoArg
    /\ result = NoResult
    /\ paint \in [sty : Style, fg : Color, bg : Color]
    /\ cell = NoCell

\* print / print_char: the words handed to change_cell
PrintChar ==
    /\ cell = NoCell
    /\ cell' = [fg |-> print_fg(paint.sty, paint.fg), bg |-> print_bg(paint.bg)]
    /\ UNCHANGED <<paint, lifecycle, decoder>>

NextPrint == PrintChar

SpecPrint == InitPrint /\ [][NextPrint]_vars

-----------------------------------------------------------------------------
(* Vocabulary of the properties *)

\* thread t has a RustBox: built by init and not yet wholly dropped
HandleAlive(t) == pc[t] \in {"input_mode", "live", "fields"}

\* this step is a call of RustBox::init by thread t
InitCalled(t) == pc[t] = "idle" /\ (pc'[t] # "idle" \/ ret'[t] # ret[t])

\* the log is that of a session whose guard has been released
SessionOver == log # <<>> /\ log[Len(log)].call = "drop RunningGuard"

\* the thread that took the flag at the start of the log
Owner == log[1].arg

-----------------------------------------------------------------------------
(* Properties of the session guard and of RustBox::init *)

\* C1: at any time at most one thread owns a RunningGuard and at most one
\* thread has a handle, and a thread that has a handle owns the guard; of the
\* threads racing on init at most one is past the guard-acquisition step.
C1_AtMostOneSession ==
    /\ Cardinality({t \in Threads : guard[t]}) <= 1
    /\ Cardinality({t \in Threads : HandleAlive(t)}) <= 1
    /\ Cardinality({t \in Threads : pc[t] # "idle"}) <= 1

C1_Witness ==
    \E t, u \in Threads :
        /\ t # u
        /\ pc[t] = "tb_init" /\ guard[t]
        /\ pc[u] = "idle" /\ ret[u] = Err(AlreadyOpen)

\* C2: a call of init made while some thread has a handle returns
\* Err(AlreadyOpen), whatever its options and its thread.
C2_AlreadyOpenWhileAlive ==
    [][\A t \in Threads :
         (InitCalled(t) /\ \E u \in Threads : HandleAlive(u))
            => (pc'[t] = "idle" /\ ret'[t] = Err(AlreadyOpen))]_vars

C2_Witness ==
    \E t, u \in Threads :
        /\ pc[t] = "live" /\ lastCall.fn = "tb_present" /\ lastCall.by = t
        /\ pc[u] = "idle" /\ ret[u] = Err(AlreadyOpen)

\* C3: the step that finishes the drop of a handle leaves the flag false, and
\* an init called after a session's guard was released, with no init in
\* between, takes the flag and does not return AlreadyOpen.
C3_ReleasedAfterDrop ==
    [][\A t \in Threads :
         /\ (pc[t] = "fields" /\ pc'[t] = "idle") => ~RUSTBOX_RUNNING'
         /\ (InitCalled(t) /\ SessionOver)
               => (pc'[t] = "stderr" /\ guard'[t] /\ ret'[t] # Err(AlreadyOpen))]_vars

C3_Witness ==
    \E t, u \in Threads :
        /\ t # u
        /\ pc[t] = "idle" /\ ret[t] = Ok("RustBox")
        /\ pc[u] = "live" /\ ret[u] = Ok("RustBox") /\ RUSTBOX_RUNNING

\* C4: the flag is true exactly when some thread owns a RunningGuard; it
\* goes from false to true only in a step in which run() hands a guard to an
\* init, and from true to false only in a step that drops a guard.
C4_FlagIffGuard == RUSTBOX_RUNNING <=> \E t \in Threads : guard[t]

C4_FlagStep ==
    /\ (~RUSTBOX_RUNNING /\ RUSTBOX_RUNNING')
          => \E t \in Threads : pc[t] = "idle" /\ pc'[t] = "stderr" /\ ~guard[t] /\ guard'[t]
    /\ (RUSTBOX_RUNNING /\ ~RUSTBOX_RUNNING')
          => \E t \in Threads : todo[t] # <<>> /\ Head(todo[t]) = "running"
                                 /\ guard[t] /\ ~guard'[t]

C4_FlagTracksGuard == [](C4_FlagIffGuard) /\ [][C4_FlagStep]_vars

C4_Witness ==
    /\ ~RUSTBOX_RUNNING
    /\ \E t \in Threads : pc[t] = "idle" /\ ret[t] = Err(BufferStderrFailed)
    /\ SessionOver

-----------------------------------------------------------------------------
(* Properties of teardown *)

\* the log is that of a handle's drop: tb_shutdown was called
InHandleDrop == Pos("tb_shutdown") > 0

\* C5 as stated: in the drop of a handle the stderr-redirect resource, if
\* any, is released before tb_shutdown is called, and the guard is released
\* after tb_shutdown.
C5_StderrShutdownGuard ==
    InHandleDrop =>
        /\ Pos("Hold::stderr") > 0
              => (Pos("drop Hold") > 0 /\ Pos("drop Hold") < Pos("tb_shutdown"))
        /\ Pos("drop RunningGuard") > 0
              => Pos("tb_shutdown") < Pos("drop RunningGuard")

\* C5 amended: in the drop of a handle tb_shutdown is called first, then the
\* stderr-redirect resource, if any, is released, and the guard is released
\* last.
C5_ShutdownStderrGuard ==
    InHandleDrop =>
        /\ Pos("drop Hold") > 0 => Pos("tb_shutdown") < Pos("drop Hold")
        /\ Pos("drop RunningGuard") > 0
              => /\ Pos("tb_shutdown") < Pos("drop RunningGuard")
                 /\ Pos("Hold::stderr") > 0
                       => (Pos("drop Hold") > 0
                           /\ Pos("drop Hold") < Pos("drop RunningGuard"))

C5_Witness ==
    /\ InHandleDrop /\ SessionOver
    /\ Pos("Hold::stderr") > 0 /\ Pos("drop Hold") > 0
    /\ pc[Owner] = "idle"

\* C6: while any thread owns the stderr-redirect resource the flag is true,
\* and in every session that acquired the resource it is released before the
\* guard is, on the drop of a handle and on the early return of init alike.
C6_StderrReleasedBeforeFlag ==
    /\ \A t \in Threads : hold[t] => (RUSTBOX_RUNNING /\ guard[t])
    /\ (Pos("Hold::stderr") > 0 /\ Pos("drop RunningGuard") > 0)
          => (Pos("drop Hold") > 0 /\ Pos("drop Hold") < Pos("drop RunningGuard"))

C6_Witness ==
    /\ SessionOver /\ ~InHandleDrop
    /\ Pos("Hold::stderr") > 0 /\ Pos("drop Hold") > 0
    /\ Pos("tb_init") > 0 /\ log[Pos("tb_init")].arg = -2
    /\ pc[Owner] = "idle" /\ ret[Owner] = Err(FailedToOpenTTy)

\* C7: the step with which a failing init returns, after it acquired the
\* guard, leaves the flag false, no guard and no stderr-redirect resource
\* owned by any thread, and an Err as the result.
C7_FailedInitUnlocks ==
    [][\A t \in Threads :
         (pc[t] = "unwind" /\ pc'[t] = "idle")
            => /\ ~RUSTBOX_RUNNING'
               /\ \A u \in Threads : ~guard'[u] /\ ~hold'[u]
               /\ ~ret'[t].ok
               /\ ret'[t].error.err \in {"BufferStderrFailed", "UnsupportedTerminal",
                                         "FailedToOpenTTy", "PipeTrapError", "Unknown"}]_vars

C7_Witness ==
    \E t \in Threads :
        /\ pc[t] = "idle" /\ ret[t] = Err(PipeTrapError)
        /\ SessionOver /\ Owner = t /\ Pos("drop Hold") > 0
        /\ ~RUSTBOX_RUNNING

\* C8: a call of init that returns AlreadyOpen changes nothing but the
\* caller's result: no call into termbox, no acquisition, the flag true before
\* and after, every thread's guard, resource and position as they were.
C8_AlreadyOpenFrame ==
    [][\A t \in Threads :
         (InitCalled(t) /\ ret'[t] = Err(AlreadyOpen))
            => /\ RUSTBOX_RUNNING /\ RUSTBOX_RUNNING'
               /\ UNCHANGED <<pc, opts, guard, hold, todo, log, lastCall>>
               /\ \A u \in Threads \ {t} : ret'[u] = ret[u]]_vars

C8_Witness ==
    \E t, u \in Threads :
        /\ pc[u] = "idle" /\ ret[u] = Err(AlreadyOpen)
        /\ pc[t] = "live" /\ hold[t]
        /\ lastCall.fn = "tb_select_input_mode" /\ lastCall.by = t

\* C9: when the tb_init call of an init returned r, the init's result is
\* Ok(handle) for r = 0, Err(UnsupportedTerminal) for r = -1,
\* Err(FailedToOpenTTy) for r = -2, Err(PipeTrapError) for r = -3 and
\* Err(Unknown(r)) for every other negative r.
C9_InitCodeTable ==
    \A t \in Threads :
        (log # <<>> /\ Owner = t /\ Pos("tb_init") > 0 /\ pc[t] # "input_mode")
           => LET r == log[Pos("tb_init")].arg IN
              /\ r = 0 => ret[t] = Ok("RustBox")
              /\ r = -1 => ret[t] = Err(UnsupportedTerminal)
              /\ r = -2 => ret[t] = Err(FailedToOpenTTy)
              /\ r = -3 => ret[t] = Err(PipeTrapError)
              /\ r < -3 => ret[t] = Err(InitError_Unknown(r))

C9_Witness ==
    \E t \in Threads :
        /\ pc[t] = "idle" /\ log # <<>> /\ Owner = t
        /\ Pos("tb_init") > 0 /\ log[Pos("tb_init")].arg = -4
        /\ ret[t] = Err(InitError_Unknown(-4))

-----------------------------------------------------------------------------
(* Properties of unpack_event *)

Decoded == result # NoResult

\* C10 as stated: for every type tag that is not negative the result is Ok.
C10_ErrOnlyIfNegative == (Decoded /\ arg.ev_type >= 0) => result.ok

\* C10 amended: the result is an Err exactly when the type tag is none of
\* 0, 1, 2, 3: Ok for each of these four tags whatever the record and the raw
\* flag, Err for every negative tag and for every tag above 3.
C10_ErrIffNoEventTag == Decoded => (result.ok <=> arg.ev_type \in 0..3)

C10_Witness ==
    /\ Decoded
    /\ arg.ev_type = 4
    /\ result = Err(EventError_Unknown(4))

\* C11: for every record and raw flag, tag -1 decodes to Err(TermboxError)
\* and every other negative tag n to Err(Unknown(n)), carrying n itself.
C11_NegativeTagTable ==
    (Decoded /\ arg.ev_type < 0)
       => /\ arg.ev_type = -1 => result = [ok |-> FALSE, error |-> [err |-> "TermboxError"]]
          /\ arg.ev_type # -1
                => result = [ok |-> FALSE,
                             error |-> [err |-> "Unknown", code |-> arg.ev_type]]

C11_Witness ==
    /\ Decoded /\ arg.ev_type = -1 /\ arg.raw
    /\ arg.ev.key = 13 /\ arg.ev.ch = 65
    /\ result = Err(TermboxError)

\* the variant of a result: the event's name, or the error's
Variant(r) == IF r.ok THEN r.val.ev ELSE r.error.err

\* C12: the variant of the result is fixed by the tag, and for tag 1 by the
\* raw flag, whatever the record: NoEvent for 0, ResizeEvent for 2,
\* MouseEvent for 3, KeyEventRaw for 1 with raw and KeyEvent for 1 without;
\* so any other record decoded with the same tag and raw flag gives the
\* same variant.
C12_VariantByTagOnly ==
    Decoded =>
       /\ arg.ev_type = 0 => Variant(result) = "NoEvent"
       /\ arg.ev_type = 1 => Variant(result) = IF arg.raw THEN "KeyEventRaw" ELSE "KeyEvent"
       /\ arg.ev_type = 2 => Variant(result) = "ResizeEvent"
       /\ arg.ev_type = 3 => Variant(result) = "MouseEvent"
       /\ \A e \in {NIL_RAW_EVENT, [arg.ev EXCEPT !.key = 0, !.ch = 55296],
                    [arg.ev EXCEPT !.key = 7777, !.ch = 65]} :
             Variant(unpack_event(arg.ev_type, e, arg.raw)) = Variant(result)

C12_Witness ==
    /\ Decoded /\ arg.ev_type = 1 /\ ~arg.raw
    /\ arg.ev.key = 0 /\ arg.ev.ch = 55296
    /\ Variant(result) = "KeyEvent"

\* the Unicode scalar values: 0..0xD7FF and 0xE000..0x10FFFF
IsScalarValue(c) == (c >= 0 /\ c <= 55295) \/ (c >= 57344 /\ c <= 1114111)

\* C13: a type-1 record with keycode 0 and char field c decodes, without
\* raw, to KeyEvent(Some(Char(c))) when c is a Unicode scalar value and to
\* KeyEvent(None) when it is not; with raw, to KeyEventRaw(modifier, 0, c)
\* for every c.
C13_CharKey ==
    (Decoded /\ arg.ev_type = 1 /\ arg.ev.key = 0)
       => IF arg.raw
          THEN result = Ok([ev |-> "KeyEventRaw", emod |-> arg.ev.emod,
                            key |-> 0, ch |-> arg.ev.ch])
          ELSE IF IsScalarValue(arg.ev.ch)
               THEN result = Ok([ev |-> "KeyEvent",
                                 key |-> Some([key |-> "Char", char |-> arg.ev.ch])])
               ELSE result = Ok([ev |-> "KeyEvent", key |-> None])

C13_Witness ==
    /\ Decoded /\ arg.ev_type = 1 /\ arg.ev.key = 0 /\ ~arg.raw
    /\ arg.ev.ch = 57343
    /\ result = Ok(KeyEvent(None))

\* C14: a type-1 record with keycode k other than 0 decodes, without raw, to
\* KeyEvent of the keycode table's entry for k, KeyEvent(None) when the table
\* has none, whatever the record's char field.
C14_TableKey ==
    (Decoded /\ arg.ev_type = 1 /\ arg.ev.key # 0 /\ ~arg.raw)
       => /\ result = Ok([ev |-> "KeyEvent", key |-> Key_from_code(arg.ev.key)])
          /\ arg.ev.key \notin KnownKeyCodes => result = Ok([ev |-> "KeyEvent", key |-> None])
          /\ result = unpack_event(1, [arg.ev EXCEPT !.ch = 0], FALSE)

C14_Witness ==
    /\ Decoded /\ arg.ev_type = 1 /\ ~arg.raw
    /\ arg.ev.key = 13 /\ arg.ev.ch = 65
    /\ result = Ok(KeyEvent(Some([key |-> "Named", code |-> 13])))

\* C15: a type-3 record with keycode m and coordinates x, y decodes, with
\* either raw flag, to MouseEvent(b, x, y), b the mouse table's button for m
\* and Left when the table has none; never to an Err.
C15_MouseDefaultsToLeft ==
    (Decoded /\ arg.ev_type = 3)
       => /\ result.ok
          /\ result.val.ev = "MouseEvent"
          /\ result.val.x = arg.ev.x /\ result.val.y = arg.ev.y
          /\ result.val.button = IF arg.ev.key \in KnownMouseCodes
                                 THEN Mouse_from_code(arg.ev.key).val
                                 ELSE [button |-> "Left"]

C15_Witness ==
    /\ Decoded /\ arg.ev_type = 3 /\ arg.ev.key = 7777
    /\ arg.ev.x = 5 /\ arg.ev.y = -1
    /\ result = Ok(MouseEvent(Mouse_Left, 5, -1))

\* C16: a type-2 record with width w and height h, zero and negative
\* included, decodes with either raw flag to ResizeEvent(w, h), w and h as
\* they were.
C16_ResizePassThrough ==
    (Decoded /\ arg.ev_type = 2)
       => result = [ok |-> TRUE,
                    val |-> [ev |-> "ResizeEvent", w |-> arg.ev.w, h |-> arg.ev.h]]

C16_Witness ==
    /\ Decoded /\ arg.ev_type = 2 /\ arg.raw
    /\ arg.ev.w = -1 /\ arg.ev.h = 24
    /\ result.val.w = -1 /\ result.val.h = 24

-----------------------------------------------------------------------------
(* Properties of the style word *)

Printed == cell # NoCell

\* C17: for every Color c and Style s the foreground word w of print and
\* print_char has the colour's code in its bits 0x000F, the attribute bits
\* of s in its bits 0x0700, and no other bit set.
C17_ColourAndAttributeBitsDisjoint ==
    Printed =>
       /\ cell.fg % 16 = ColorCode(paint.fg)
       /\ (cell.fg \div 256) % 8 = (paint.sty \div 256) % 8
       /\ cell.fg = ColorCode(paint.fg) + 256 * ((paint.sty \div 256) % 8)

C17_Witness ==
    /\ Printed
    /\ paint.fg = "White" /\ paint.sty = 1295
    /\ cell.fg = 1288

-----------------------------------------------------------------------------
(* Properties of the calls into termbox *)

\* tb_init was called in the session of the log and returned 0
TbInitOk == Pos("tb_init") > 0 /\ log[Pos("tb_init")].arg = 0

\* the init that took the flag at the start of the log has failed
InitFailed == log # <<>> /\ pc[Owner] \in {"unwind", "idle"} /\ ~ret[Owner].ok

C18_SelectOnlyAfterInit ==
    /\ Count("tb_select_input_mode") <= 1
    /\ Pos("tb_select_input_mode") > 0
          => (TbInitOk /\ Pos("tb_init") < Pos("tb_select_input_mode")
              /\ log[Pos("tb_select_input_mode")].arg \in {1, 2, 5, 6})
    /\ InitFailed => Count("tb_select_input_mode") = 0
    /\ \A t \in Threads : pc[t] = "input_mode" => Count("tb_select_input_mode") = 0

C18_ReturnStep ==
    \A t \in Threads :
        (pc[t] = "input_mode" /\ pc'[t] = "live")
           => /\ ret'[t].ok
              /\ IF opts[t].input_mode = "Current"
                 THEN log' = log /\ lastCall' = lastCall
                 ELSE /\ log' = Append(log, [call |-> "tb_select_input_mode",
                                             arg |-> InputModeCode(opts[t].input_mode)])
                      /\ lastCall'.fn = "tb_select_input_mode"
                      /\ lastCall'.arg = InputModeCode(opts[t].input_mode)

\* C18: an init that succeeds calls tb_select_input_mode exactly once, with
\* the code of the requested mode, after tb_init returned 0 and in the step
\* with which it returns, when the mode asked for is Esc, Alt, EscMouse or
\* AltMouse; it does not call it when the mode is Current, and an init that
\* fails never calls it.
C18_InputModeSelectedOnce == [](C18_SelectOnlyAfterInit) /\ [][C18_ReturnStep]_vars

C18_Witness ==
    \E t \in Threads :
        /\ pc[t] = "live" /\ Owner = t /\ ret[t] = Ok("RustBox")
        /\ Count("tb_select_input_mode") = 1
        /\ log[Len(log)] = Entry("tb_select_input_mode", 6)

\* C19: every call into termbox (tb_init, tb_select_input_mode, the calls of
\* the handle's methods, tb_shutdown) is made with the flag true and by the
\* thread that owns the guard; so running() is true when tb_shutdown runs.
C19_CallsUnderGuard ==
    lastCall.fn # "none"
       => /\ lastCall.running /\ lastCall.guarded
          /\ lastCall.by \in Threads
          /\ lastCall.fn \in TermboxMethods => HandleAlive(lastCall.by)

C19_Witness ==
    /\ lastCall.fn = "tb_shutdown" /\ lastCall.running /\ lastCall.guarded
    /\ pc[lastCall.by] = "fields" /\ hold[lastCall.by]
    /\ RUSTBOX_RUNNING

C20_ShutdownMatchesInit ==
    /\ Count("tb_init") <= 1
    /\ Count("tb_shutdown") <= 1
    /\ Pos("tb_shutdown") > 0 => (TbInitOk /\ Pos("tb_init") < Pos("tb_shutdown"))
    /\ SessionOver => (Count("tb_shutdown") = 1 <=> TbInitOk)
    /\ \A t \in Threads :
          pc[t] \in {"input_mode", "live"} => (TbInitOk /\ Count("tb_shutdown") = 0)

\* a log is begun only when there is none or the one before it is closed
C20_SessionStep == (log' # log /\ Len(log') = 1) => (log = <<>> \/ SessionOver)

\* C20: tb_shutdown is called once for each init whose tb_init returned 0, at
\* the drop of its handle, and never for an init that failed; a tb_init that
\* returns 0 and tb_shutdown alternate, tb_init first.
C20_InitShutdownAlternate == [](C20_ShutdownMatchesInit) /\ [][C20_SessionStep]_vars

C20_Witness ==
    \E t, u \in Threads :
        /\ t # u /\ SessionOver /\ Owner = t
        /\ Count("tb_shutdown") = 1 /\ ret[t] = Ok("RustBox")
        /\ pc[u] = "idle" /\ ret[u] = Err(UnsupportedTerminal)

====
